---- MODULE Spec2Model ----
(***************************************************************************)
(* Planning of the electrical connection of buildings.                     *)
(*                                                                         *)
(* The programs modelled:                                                  *)
(*   - GridOptimizer (optimize_grid_connections.py) with the entity        *)
(*     classes Batiment and Infrastructure: load_data,                     *)
(*     calculate_connection_costs, optimize_connections;                   *)
(*   - PhasedGridOptimizer (optimize_with_phases.py): load_data,           *)
(*     calc_costs, optimize_phases, summarize;                             *)
(*   - the entity classes on their own: the methods                        *)
(*     Batiment.set_connection_info and Infrastructure.add_building        *)
(*     called on one object in any order (program "Entities");             *)
(*   - analyze_grid_connections.py (program "Analyzer"): build_graph,      *)
(*     analyze_connections, create_connection_plan, in the order of its    *)
(*     main().                                                             *)
(*                                                                         *)
(* Numbers.  Distances, costs and times are integers: the distances fed    *)
(* to the model are whole metres, and every per-metre rate of the code is  *)
(* an integer, so costs and times stay integers.  A composite score        *)
(* priority_score * (nb_maisons / connection_cost) is a rational; it is    *)
(* kept as numerator and denominator and compared by cross                 *)
(* multiplication.  float('inf') is the value Inf, with the arithmetic     *)
(* and the comparisons IEEE gives it.                                      *)
(*                                                                         *)
(* Order.  A run is one of the programs.  The operations of                *)
(* GridOptimizer run in the order of main(): load_data,                    *)
(* calculate_connection_costs, then optimize_connections, which may be     *)
(* called again on the same object (up to MaxCalls calls).  Those of       *)
(* PhasedGridOptimizer run in the order of its main(): load_data,          *)
(* calc_costs, optimize_phases, summarize.                                 *)
(*                                                                         *)
(* Labels.  The type labels are strings.  An accented letter is written   *)
(* as the letter followed by its accent, so "ho^pital" is the label        *)
(* h-o circumflex-p-i-t-a-l and "e'cole", "ae'rien" have an e acute; the   *)
(* unaccented "hopital", "ecole", "aerien" are other labels, as in Python. *)
(*                                                                         *)
(* Geometry.  The geometry provider is external.  A geometry is either     *)
(* None or a position 0, 1, 2, ... on one axis, and the distance of two     *)
(* geometries is the absolute difference of their positions.               *)
(***************************************************************************)
EXTENDS Integers, Sequences, FiniteSets, TLC

VARIABLES
    program,             \* the script that runs: "GridOptimizer", "PhasedGridOptimizer" or
                         \* "Analyzer" (analyze_grid_connections), or "Entities"
    pc,                  \* position of the script
    batiments,           \* GridOptimizer.batiments, in insertion order; the id is the index
    infrastructures,     \* GridOptimizer.infrastructures, in insertion order; the id is the index
    connection_plan,     \* GridOptimizer.connection_plan
    total_cost,          \* GridOptimizer.total_cost
    total_time,          \* GridOptimizer.total_time
    buildings_connected, \* GridOptimizer.buildings_connected
    houses_connected,    \* GridOptimizer.houses_connected
    calls,               \* number of optimize_connections calls started
    budget,              \* argument of the latest optimize_connections call
    max_time,            \* argument of the latest optimize_connections call
    building_scores,     \* building_scores of the latest call: the ranked (score, bat_id) list
    scan_log,            \* the turns of the loop of the latest call, one entry per candidate:
                         \* cumulative_cost and cumulative_time before the turn, and
                         \* whether the candidate was accepted
    gdf_batiments,       \* PhasedGridOptimizer.batiments: the rows of the building shapefile
    gdf_infras,          \* PhasedGridOptimizer.infras: the rows of the line shapefile
    results,             \* PhasedGridOptimizer.results: the rows of the data frame, in its order
    phase_stats,         \* PhasedGridOptimizer.phase_stats
    chosen_log,          \* the rows of chosen in each pass of the loop of optimize_phases,
                         \* as positions in results
    bat,                 \* a Batiment object used on its own (None in the two scripts)
    line,                \* an Infrastructure object used on its own (None in the two scripts)
    costs,               \* analyze_grid_connections: the costs dict of build_graph, in
                         \* insertion order
    connection_analysis, \* the list analyze_connections returns
    plan_budget,         \* the budget create_connection_plan was called with
    plan_result          \* what create_connection_plan returned (None before the call)

grid_vars == <<batiments, infrastructures, connection_plan, total_cost, total_time,
               buildings_connected, houses_connected, calls, budget, max_time,
               building_scores, scan_log>>
phased_vars == <<gdf_batiments, gdf_infras, results, phase_stats, chosen_log>>
entity_vars == <<bat, line>>
analysis_vars == <<costs, connection_analysis, plan_budget, plan_result>>

vars == <<program, gdf_batiments, gdf_infras, results, phase_stats, chosen_log, bat, line, pc, batiments, infrastructures, connection_plan, total_cost, total_time,
          buildings_connected, houses_connected, calls, budget, max_time,
          building_scores, scan_log, costs, connection_analysis, plan_budget, plan_result>>

----------------------------------------------------------------------------
(* Bounds of the model *)

MaxBat == 3
MaxInfra == 2
MaxCalls == 2
MaxPool == 6
MaxConn == 3

\* Python's None, where the value would otherwise be a number >= 0
None == -1

\* float('inf'): above every finite cost of the model
Inf == 1000000000

\* house counts the building shapefile may hold
HouseCounts == {5, 10}

\* type labels the building shapefile may hold
BatTypes == {"ho^pital", "e'cole", "habitation", "commerce"}

\* type labels the infrastructure shapefile may hold; "" is a row without a
\* type, for which load_data substitutes "ae'rien", the accented word
InfraTypes == {"aerien", "semi-aerien", "fourreau", ""}


\* the <<budget, max_time>> optimize_connections may be called with
Caps == {<<None, None>>, <<1500, None>>, <<None, 6>>, <<1500, 6>>}

----------------------------------------------------------------------------
(* Batiment *)

\* Batiment.TYPE_PRIORITIES.get(type_batiment, 1)
TYPE_PRIORITIES(type_batiment) ==
    CASE type_batiment = "ho^pital" -> 100
      [] type_batiment = "e'cole" -> 50
      [] type_batiment = "habitation" -> 10
      [] OTHER -> 1

\* calculate_priority adding the house count to the weight
calculate_priority_sum(type_batiment, nb_maisons) ==
    TYPE_PRIORITIES(type_batiment) + nb_maisons

\* Batiment.calculate_priority
calculate_priority(type_batiment, nb_maisons) ==
    TYPE_PRIORITIES(type_batiment) * nb_maisons

\* Batiment.__init__ followed by the geometry assignment and
\* calculate_priority of load_data
Batiment(type_batiment, nb_maisons, geometry) ==
    [type_batiment |-> type_batiment,
     nb_maisons |-> nb_maisons,
     geometry |-> geometry,
     connected |-> FALSE,
     connection_cost |-> 0,
     connection_time |-> 0,
     priority_score |-> calculate_priority(type_batiment, nb_maisons),
     connected_via |-> None]

\* Batiment.get_efficiency_score, as the fraction <<numerator, denominator>>
get_efficiency_score(b) ==
    IF b.connection_cost > 0 THEN <<b.nb_maisons, b.connection_cost>> ELSE <<0, 1>>

----------------------------------------------------------------------------
(* Infrastructure *)

\* INFRASTRUCTURE_SPECS falling back on the overhead line for an unknown type
INFRASTRUCTURE_SPECS_default_aerien(type_infra) ==
    CASE type_infra = "aerien" -> [cost |-> 500, time |-> 2]
      [] type_infra = "semi-aerien" -> [cost |-> 750, time |-> 4]
      [] type_infra = "fourreau" -> [cost |-> 900, time |-> 5]
      [] OTHER -> [cost |-> 500, time |-> 2]

\* Infrastructure.INFRASTRUCTURE_SPECS.get(type_infra, {'cost': 0, 'time': 0})
INFRASTRUCTURE_SPECS(type_infra) ==
    CASE type_infra = "aerien" -> [cost |-> 500, time |-> 2]
      [] type_infra = "semi-aerien" -> [cost |-> 750, time |-> 4]
      [] type_infra = "fourreau" -> [cost |-> 900, time |-> 5]
      [] OTHER -> [cost |-> 0, time |-> 0]

\* Infrastructure.__init__ followed by the geometry assignment of load_data
Infrastructure(type_infra, geometry) ==
    [type_infra |-> type_infra,
     geometry |-> geometry,
     buildings_connected |-> <<>>,
     shared |-> FALSE,
     cost_per_meter |-> INFRASTRUCTURE_SPECS(type_infra).cost,
     time_per_meter |-> INFRASTRUCTURE_SPECS(type_infra).time]

InSeq(x, s) == \E k \in 1 .. Len(s) : s[k] = x

\* add_building raising the flag at the first registration
add_building_share_first(infra, building_id) ==
    IF InSeq(building_id, infra.buildings_connected)
    THEN infra
    ELSE LET added == Append(infra.buildings_connected, building_id)
         IN  [infra EXCEPT !.buildings_connected = added,
                           !.shared = IF Len(added) > 0 THEN TRUE ELSE infra.shared]

\* Infrastructure.add_building
add_building(infra, building_id) ==
    IF InSeq(building_id, infra.buildings_connected)
    THEN infra
    ELSE LET added == Append(infra.buildings_connected, building_id)
         IN  [infra EXCEPT !.buildings_connected = added,
                           !.shared = IF Len(added) > 1 THEN TRUE ELSE infra.shared]

----------------------------------------------------------------------------
(* GridOptimizer.calculate_connection_costs *)

min_connection_cost == 50
FallbackDistance == 50
ClampedDistance == 10

Max(a, b) == IF a >= b THEN a ELSE b

\* batiment.geometry.distance(infra.geometry): the geometry provider
GeomDistance(g1, g2) == IF g1 >= g2 THEN g1 - g2 ELSE g2 - g1

\* CostingDistance with the clamp test distance <= 1
CostingDistanceClampAtOne(batiment, infra) ==
    IF infra.geometry # None /\ batiment.geometry # None
    THEN LET distance == GeomDistance(batiment.geometry, infra.geometry)
         IN  IF distance <= 1 THEN ClampedDistance ELSE distance
    ELSE FallbackDistance

\* CostingDistance with the clamp applied to the fallback estimate too
CostingDistanceFallbackClamped(batiment, infra) ==
    IF infra.geometry # None /\ batiment.geometry # None
    THEN LET distance == GeomDistance(batiment.geometry, infra.geometry)
         IN  IF distance < 1 THEN ClampedDistance ELSE distance
    ELSE ClampedDistance

\* the distance used for costing one building/line pair
CostingDistance(batiment, infra) ==
    IF infra.geometry # None /\ batiment.geometry # None
    THEN LET distance == GeomDistance(batiment.geometry, infra.geometry)
         IN  IF distance < 1 THEN ClampedDistance ELSE distance
    ELSE FallbackDistance

\* cost and time of one candidate line
Candidate(batiment, infra) ==
    LET distance == CostingDistance(batiment, infra)
    IN  [cost |-> distance * infra.cost_per_meter,
         time |-> distance * infra.time_per_meter,
         distance |-> distance]

\* BestAfter with the test cost <= min_cost: the last of the cheapest lines
RECURSIVE BestAfterLast(_, _, _)
BestAfterLast(batiment, infras, k) ==
    IF k = 0 THEN [min_cost |-> Inf, best_infra |-> None, best_time |-> 0]
    ELSE LET prev == BestAfterLast(batiment, infras, k - 1)
             cand == Candidate(batiment, infras[k])
         IN  IF cand.cost <= prev.min_cost
             THEN [min_cost |-> cand.cost, best_infra |-> k, best_time |-> cand.time]
             ELSE prev

\* the inner loop over the lines: min_cost, best_infra and best_time after
\* the lines 1..k
RECURSIVE BestAfter(_, _, _)
BestAfter(batiment, infras, k) ==
    IF k = 0 THEN [min_cost |-> Inf, best_infra |-> None, best_time |-> 0]
    ELSE LET prev == BestAfter(batiment, infras, k - 1)
             cand == Candidate(batiment, infras[k])
         IN  IF cand.cost < prev.min_cost
             THEN [min_cost |-> cand.cost, best_infra |-> k, best_time |-> cand.time]
             ELSE prev

\* ResolveBatiment without the floor of the line 156
ResolveBatimentNoFloor(batiment, infras) ==
    LET best == BestAfter(batiment, infras, Len(infras))
    IN  IF best.best_infra # None
        THEN [batiment EXCEPT !.connection_cost = best.min_cost,
                              !.connection_time = best.best_time,
                              !.connected_via = best.best_infra]
        ELSE batiment

\* ResolveBatiment without the test of the line 155
ResolveBatimentAlways(batiment, infras) ==
    LET best == BestAfter(batiment, infras, Len(infras))
    IN  [batiment EXCEPT !.connection_cost = Max(best.min_cost, min_connection_cost),
                         !.connection_time = best.best_time,
                         !.connected_via = best.best_infra]

\* the body of the loop over the buildings
ResolveBatiment(batiment, infras) ==
    LET best == BestAfter(batiment, infras, Len(infras))
    IN  IF best.best_infra # None
        THEN [batiment EXCEPT !.connection_cost = Max(best.min_cost, min_connection_cost),
                              !.connection_time = best.best_time,
                              !.connected_via = best.best_infra]
        ELSE batiment

\* GridOptimizer.calculate_connection_costs: every building, in order
calculate_connection_costs ==
    /\ program = "GridOptimizer"
    /\ pc = "loaded"
    /\ batiments' = [k \in 1 .. Len(batiments) |->
                        ResolveBatiment(batiments[k], infrastructures)]
    /\ pc' = "costed"
    /\ UNCHANGED <<infrastructures, connection_plan, total_cost, total_time,
                   buildings_connected, houses_connected, calls, budget, max_time,
                   building_scores, scan_log>>
    /\ UNCHANGED <<program, phased_vars, entity_vars, analysis_vars>>

----------------------------------------------------------------------------
(* GridOptimizer.load_data *)

SeqsUpTo(S, lo, hi) == UNION {[1 .. n -> S] : n \in lo .. hi}

\* The contents of the two shapefiles, <<building rows, line rows>>.
\* Three families keep the state space small:
\*   - one building, without a geometry or at the position 1, and up to
\*     MaxInfra lines of any type, without a geometry or at the distance 0
\*     or 1 of that position (every case of the cost of one building);
\*   - up to MaxBat hospitals and houses at the positions 1 and 2, and no
\*     line, one overhead line at the position 0, or a second one at the
\*     position 3 (every case of the ranking and of the caps);
\*   - two buildings of any type and house count.
ResolverFiles ==
    {<<<<row>>, infra_rows>> :
        row \in [type_batiment : {"habitation"}, nb_maisons : {5}, geometry : {None, 1}],
        infra_rows \in SeqsUpTo([type_infra : InfraTypes, geometry : {None, 1, 2}],
                                0, MaxInfra)}
AllocatorFiles ==
    SeqsUpTo([type_batiment : {"ho^pital", "habitation"}, nb_maisons : HouseCounts,
              geometry : {1, 2}], 1, MaxBat)
    \X {<<>>,
        <<[type_infra |-> "aerien", geometry |-> 0]>>,
        <<[type_infra |-> "aerien", geometry |-> 0],
          [type_infra |-> "aerien", geometry |-> 3]>>}
PriorityFiles ==
    SeqsUpTo([type_batiment : BatTypes, nb_maisons : HouseCounts, geometry : {None}], 2, 2)
    \X {<<[type_infra |-> "aerien", geometry |-> None]>>}
Files == ResolverFiles \cup AllocatorFiles \cup PriorityFiles

\* type_i = str(row.get('type_infra') or row.get('TYPE_INFRA') or 'ae'rien')
type_i(row) == IF row.type_infra = "" THEN "ae'rien" ELSE row.type_infra

\* the two loops over the rows of the shapefiles
load_data ==
    /\ program = "GridOptimizer"
    /\ pc = "new"
    /\ \E files \in Files :
          /\ batiments' = [k \in 1 .. Len(files[1]) |->
                              Batiment(files[1][k].type_batiment, files[1][k].nb_maisons,
                                       files[1][k].geometry)]
          /\ infrastructures' = [k \in 1 .. Len(files[2]) |->
                                    Infrastructure(type_i(files[2][k]),
                                                   files[2][k].geometry)]
    /\ pc' = "loaded"
    /\ UNCHANGED <<connection_plan, total_cost, total_time, buildings_connected,
                   houses_connected, calls, budget, max_time, building_scores, scan_log>>
    /\ UNCHANGED <<program, phased_vars, entity_vars, analysis_vars>>

----------------------------------------------------------------------------
(* GridOptimizer.optimize_connections *)

\* score = b.priority_score * (b.nb_maisons / b.connection_cost), as a fraction
Score(b) == [num |-> b.priority_score * b.nb_maisons, den |-> b.connection_cost]

\* x[0] > y[0] on two scores
ScoreGreater(x, y) == x.num * y.den > y.num * x.den

\* the loop of the lines 179-184: the buildings with a truthy connection_cost,
\* in the order of the map
RECURSIVE Eligible(_, _)
Eligible(bats, k) ==
    IF k = 0 THEN <<>>
    ELSE IF bats[k].connection_cost # 0
         THEN Append(Eligible(bats, k - 1), [score |-> Score(bats[k]), bat_id |-> k])
         ELSE Eligible(bats, k - 1)

\* InsertDesc of a sort that is not stable: e goes before the entries whose
\* score equals its own
RECURSIVE InsertDescUnstable(_, _)
InsertDescUnstable(sorted, e) ==
    IF sorted = <<>> THEN <<e>>
    ELSE IF ~ScoreGreater(Head(sorted).score, e.score)
         THEN <<e>> \o sorted
         ELSE <<Head(sorted)>> \o InsertDescUnstable(Tail(sorted), e)

\* one insertion of list.sort(key=score, reverse=True): e goes behind every
\* entry whose score is greater than or equal to its own
RECURSIVE InsertDesc(_, _)
InsertDesc(sorted, e) ==
    IF sorted = <<>> THEN <<e>>
    ELSE IF ScoreGreater(e.score, Head(sorted).score)
         THEN <<e>> \o sorted
         ELSE <<Head(sorted)>> \o InsertDesc(Tail(sorted), e)

\* building_scores.sort(key=lambda x: x[0], reverse=True): stable, descending
RECURSIVE SortDesc(_, _)
SortDesc(entries, k) ==
    IF k = 0 THEN <<>> ELSE InsertDesc(SortDesc(entries, k - 1), entries[k])

\* building_scores as the scan finds it: lines 179-186
RankedCandidates(bats) ==
    LET eligible == Eligible(bats, Len(bats))
    IN  SortDesc(eligible, Len(eligible))

\* Fits without the test of the lines 201-202
FitsWithoutTimeCap(new_cost, new_time, bud, mt) ==
    ~(bud # None /\ new_cost > bud)

\* the two cap tests of the lines 199-202: TRUE when neither continue is taken
Fits(new_cost, new_time, bud, mt) ==
    /\ ~(bud # None /\ new_cost > bud)
    /\ ~(mt # None /\ new_time > mt)

\* the record appended to connection_plan
PlanRecord(bat_id, b, infra) ==
    [building_id |-> bat_id,
     building_type |-> b.type_batiment,
     nb_houses |-> b.nb_maisons,
     infrastructure_id |-> b.connected_via,
     infrastructure_type |-> infra.type_infra,
     cost |-> b.connection_cost,
     time |-> b.connection_time,
     priority_score |-> b.priority_score,
     efficiency |-> get_efficiency_score(b)]

\* Turn that counts a rejected building among the connected ones
TurnCountRejected(st, bat_id, bud, mt) ==
    LET b == st.batiments[bat_id]
        new_cost == st.cumulative_cost + b.connection_cost
        new_time == st.cumulative_time + b.connection_time
        infra == st.infrastructures[b.connected_via]
        entry == [bat_id |-> bat_id, cost_before |-> st.cumulative_cost,
                  time_before |-> st.cumulative_time]
    IN  IF ~Fits(new_cost, new_time, bud, mt)
        THEN [st EXCEPT !.scan_log = Append(@, entry @@ [accepted |-> FALSE]),
                        !.buildings_connected = @ + 1,
                        !.houses_connected = @ + b.nb_maisons]
        ELSE [batiments |-> [st.batiments EXCEPT ![bat_id].connected = TRUE],
              infrastructures |-> [st.infrastructures EXCEPT
                                      ![b.connected_via] = add_building(infra, bat_id)],
              connection_plan |-> Append(st.connection_plan, PlanRecord(bat_id, b, infra)),
              cumulative_cost |-> new_cost,
              cumulative_time |-> new_time,
              buildings_connected |-> st.buildings_connected + 1,
              houses_connected |-> st.houses_connected + b.nb_maisons,
              scan_log |-> Append(st.scan_log, entry @@ [accepted |-> TRUE])]

\* Turn that routes an accepted building to the first line
TurnReroute(st, bat_id, bud, mt) ==
    LET b == st.batiments[bat_id]
        new_cost == st.cumulative_cost + b.connection_cost
        new_time == st.cumulative_time + b.connection_time
        infra == st.infrastructures[1]
        entry == [bat_id |-> bat_id, cost_before |-> st.cumulative_cost,
                  time_before |-> st.cumulative_time]
    IN  IF ~Fits(new_cost, new_time, bud, mt)
        THEN [st EXCEPT !.scan_log = Append(@, entry @@ [accepted |-> FALSE])]
        ELSE [batiments |-> [st.batiments EXCEPT ![bat_id].connected = TRUE,
                                                 ![bat_id].connected_via = 1],
              infrastructures |-> [st.infrastructures EXCEPT
                                      ![1] = add_building(infra, bat_id)],
              connection_plan |-> Append(st.connection_plan, PlanRecord(bat_id, b, infra)),
              cumulative_cost |-> new_cost,
              cumulative_time |-> new_time,
              buildings_connected |-> st.buildings_connected + 1,
              houses_connected |-> st.houses_connected + b.nb_maisons,
              scan_log |-> Append(st.scan_log, entry @@ [accepted |-> TRUE])]

\* one turn of the loop of the lines 195-223, on the state st of the call
Turn(st, bat_id, bud, mt) ==
    LET b == st.batiments[bat_id]
        new_cost == st.cumulative_cost + b.connection_cost
        new_time == st.cumulative_time + b.connection_time
        infra == st.infrastructures[b.connected_via]
        entry == [bat_id |-> bat_id, cost_before |-> st.cumulative_cost,
                  time_before |-> st.cumulative_time]
    IN  IF ~Fits(new_cost, new_time, bud, mt)
        THEN [st EXCEPT !.scan_log = Append(@, entry @@ [accepted |-> FALSE])]
        ELSE [batiments |-> [st.batiments EXCEPT ![bat_id].connected = TRUE],
              infrastructures |-> [st.infrastructures EXCEPT
                                      ![b.connected_via] = add_building(infra, bat_id)],
              connection_plan |-> Append(st.connection_plan, PlanRecord(bat_id, b, infra)),
              cumulative_cost |-> new_cost,
              cumulative_time |-> new_time,
              buildings_connected |-> st.buildings_connected + 1,
              houses_connected |-> st.houses_connected + b.nb_maisons,
              scan_log |-> Append(st.scan_log, entry @@ [accepted |-> TRUE])]

\* ScanLoop with break in the place of continue: the first rejection ends the scan
RECURSIVE ScanLoopBreak(_, _, _, _, _)
ScanLoopBreak(st, scores, k, bud, mt) ==
    IF k = 0 THEN st
    ELSE LET prev == ScanLoopBreak(st, scores, k - 1, bud, mt)
         IN  IF Len(prev.scan_log) < k - 1
                \/ (k > 1 /\ ~prev.scan_log[k - 1].accepted)
             THEN prev
             ELSE Turn(prev, scores[k].bat_id, bud, mt)

\* the loop of the lines 195-223 over the candidates 1..k
RECURSIVE ScanLoop(_, _, _, _, _)
ScanLoop(st, scores, k, bud, mt) ==
    IF k = 0 THEN st
    ELSE Turn(ScanLoop(st, scores, k - 1, bud, mt), scores[k].bat_id, bud, mt)

\* the features export_to_shapefile builds from connection_plan: the id, the
\* house count, the line and the rank of each record (the rounded columns
\* are left out)
ExportFeatures(plan) ==
    [rank \in DOMAIN plan |->
        [id |-> plan[rank].building_id,
         nb_maisons |-> plan[rank].nb_houses,
         infra_id |-> plan[rank].infrastructure_id,
         rank |-> rank]]

\* GridOptimizer.optimize_connections(budget, max_time)
optimize_connections ==
    /\ program = "GridOptimizer"
    /\ pc = "costed"
    /\ calls < MaxCalls
    /\ \E caps \in Caps :
          \E scores \in {RankedCandidates(batiments)} :
          \E st \in {ScanLoop([batiments |-> batiments,
                              infrastructures |-> infrastructures,
                              connection_plan |-> connection_plan,
                              cumulative_cost |-> 0,
                              cumulative_time |-> 0,
                              buildings_connected |-> buildings_connected,
                              houses_connected |-> houses_connected,
                              scan_log |-> <<>>],
                             scores, Len(scores), caps[1], caps[2])} :
              /\ budget' = caps[1]
              /\ max_time' = caps[2]
              /\ building_scores' = scores
              /\ batiments' = st.batiments
              /\ infrastructures' = st.infrastructures
              /\ connection_plan' = st.connection_plan
              /\ buildings_connected' = st.buildings_connected
              /\ houses_connected' = st.houses_connected
              /\ scan_log' = st.scan_log
              /\ total_cost' = st.cumulative_cost
              /\ total_time' = st.cumulative_time
    /\ calls' = calls + 1
    /\ UNCHANGED <<pc, program, phased_vars, entity_vars, analysis_vars>>

----------------------------------------------------------------------------
(* PhasedGridOptimizer *)

\* str.lower() and str.strip(), on the letters the labels are written with
UpperLetters == "ABCDEFGHIJKLMNOPQRSTUVWXYZ"
LowerLetters == "abcdefghijklmnopqrstuvwxyz"

LowerChar(c) ==
    IF \E i \in 1 .. Len(UpperLetters) : SubSeq(UpperLetters, i, i) = c
    THEN LET i == CHOOSE i \in 1 .. Len(UpperLetters) : SubSeq(UpperLetters, i, i) = c
         IN  SubSeq(LowerLetters, i, i)
    ELSE c

RECURSIVE Lower(_)
Lower(t) ==
    IF Len(t) = 0 THEN "" ELSE LowerChar(SubSeq(t, 1, 1)) \o Lower(SubSeq(t, 2, Len(t)))

RECURSIVE Strip(_)
Strip(t) ==
    IF Len(t) = 0 THEN ""
    ELSE IF SubSeq(t, 1, 1) = " " THEN Strip(SubSeq(t, 2, Len(t)))
    ELSE IF SubSeq(t, Len(t), Len(t)) = " " THEN Strip(SubSeq(t, 1, Len(t) - 1))
    ELSE t

\* k in t, on two strings
Contains(t, k) ==
    \E i \in 1 .. (Len(t) - Len(k) + 1) : SubSeq(t, i, i + Len(k) - 1) = k

\* the test of the line 86
IsHospital(t) == \E k \in {"ho^pital", "hopital", "hospital"} : Contains(t, k)

\* the rows of the two shapefiles PhasedGridOptimizer reads: the type label
\* and the house count of each building, the type label of each line
PhasedRows ==
    {[type_batiment |-> "Ho^pital", nb_maisons |-> 10],
     [type_batiment |-> "hopital central", nb_maisons |-> 5],
     [type_batiment |-> "e'cole", nb_maisons |-> 5],
     [type_batiment |-> "e'cole", nb_maisons |-> 10],
     [type_batiment |-> "habitation", nb_maisons |-> 10],
     [type_batiment |-> "commerce", nb_maisons |-> 5]}
LabelLines ==
    {<<>>, <<"ae'rien">>, <<"fourreau", "Semi-ae'rien">>, <<"fourreau", "aerien">>}
LabelFiles ==
    SeqsUpTo(PhasedRows, 1, MaxBat)
    \X LabelLines

\* A larger building shapefile, so that every phase has members: up to
\* MaxPool of these rows, in this order, with one line or none.  The
\* priorities of the rows differ, so the data frame has one order.
PoolRows ==
    <<[type_batiment |-> "habitation", nb_maisons |-> 10],
      [type_batiment |-> "e'cole", nb_maisons |-> 10],
      [type_batiment |-> "Ho^pital", nb_maisons |-> 10],
      [type_batiment |-> "e'cole", nb_maisons |-> 5],
      [type_batiment |-> "commerce", nb_maisons |-> 5],
      [type_batiment |-> "habitation", nb_maisons |-> 5],
      [type_batiment |-> "commerce", nb_maisons |-> 10],
      [type_batiment |-> "habitation", nb_maisons |-> 2]>>
PoolFiles ==
    {[i \in 1 .. Cardinality(S) |->
         PoolRows[CHOOSE x \in S : Cardinality({y \in S : y <= x}) = i]] :
        S \in {T \in SUBSET DOMAIN PoolRows : Cardinality(T) \in 1 .. MaxPool}}
    \X {<<>>, <<"ae'rien">>}
PhasedFiles == LabelFiles \cup PoolFiles


\* The labels of the shapefiles above, and str(...).strip().lower() and the
\* test of the line 86 computed once for each of them.
PhasedLabels ==
    {row.type_batiment : row \in PhasedRows}
    \cup {PoolRows[k].type_batiment : k \in DOMAIN PoolRows}
    \cup UNION {{lines[k] : k \in DOMAIN lines} : lines \in LabelLines}
NormalizedLabel == [t \in PhasedLabels |-> Lower(Strip(t))]
hospital_mask == [t \in {NormalizedLabel[x] : x \in PhasedLabels} |-> IsHospital(t)]

\* a missing infra_type of the data frame
NoType == "None"

\* PhasedGridOptimizer.INFRA_SPECS, and get_specs with its default
INFRA_SPECS(infra_type) ==
    CASE infra_type = "ae'rien" -> [cost_m |-> 500, time_m |-> 2]
      [] infra_type = "semi-ae'rien" -> [cost_m |-> 750, time_m |-> 4]
      [] infra_type = "fourreau" -> [cost_m |-> 900, time_m |-> 5]
get_specs(infra_type) ==
    IF infra_type \in {"ae'rien", "semi-ae'rien", "fourreau"}
    THEN INFRA_SPECS(infra_type)
    ELSE INFRA_SPECS("ae'rien")

\* _priority with the weights of the school and the house exchanged
_priority_swapped(b_type, nb) ==
    (CASE b_type \in {"ho^pital", "hopital", "hospital"} -> 100
       [] b_type \in {"e'cole", "ecole"} -> 10
       [] b_type = "habitation" -> 50
       [] OTHER -> 1) * nb

\* PhasedGridOptimizer._priority
_priority(b_type, nb) ==
    (CASE b_type \in {"ho^pital", "hopital", "hospital"} -> 100
       [] b_type \in {"e'cole", "ecole"} -> 50
       [] b_type = "habitation" -> 10
       [] OTHER -> 1) * nb

\* the default of the parameter avg_distance of calc_costs
avg_distance == 50

\* the cost of one line for any building: the line 62, where 37.5 is 375 / 10
LineCost(i_type) ==
    avg_distance * get_specs(i_type).cost_m
        + (avg_distance * get_specs(i_type).time_m * 375) \div 10

\* the inner loop of calc_costs over the lines 1..k: best_cost and best_type
RECURSIVE BestLineAfter(_, _)
BestLineAfter(infras, k) ==
    IF k = 0 THEN [best_cost |-> Inf, best_type |-> NoType]
    ELSE LET prev == BestLineAfter(infras, k - 1)
             i_type == NormalizedLabel[infras[k]]
         IN  IF LineCost(i_type) < prev.best_cost
             THEN [best_cost |-> LineCost(i_type), best_type |-> i_type]
             ELSE prev

\* the row calc_costs appends to data for the building idx
DataRow(idx, b, infras) ==
    LET b_type == NormalizedLabel[b.type_batiment]
        best == BestLineAfter(infras, Len(infras))
    IN  [id |-> idx,
         type |-> b_type,
         nb_maisons |-> b.nb_maisons,
         infra_type |-> best.best_type,
         total_cost |-> best.best_cost,
         priority |-> _priority(b_type, b.nb_maisons),
         phase |-> None]

\* df.sort_values("priority", ascending=False): the orders of the rows in
\* which the priority never increases.  The default sort is not a stable
\* one, so rows of equal priority come in any order.  The orders of the
\* first k rows are those of the first k - 1 with the row k put in at any
\* place that keeps the priorities from increasing.
RECURSIVE SortedPrefixes(_, _)
SortedPrefixes(data, k) ==
    IF k = 0 THEN {<<>>}
    ELSE {SubSeq(sorted, 1, at) \o <<data[k]>> \o SubSeq(sorted, at + 1, Len(sorted)) :
             <<sorted, at>> \in
                 {sa \in SortedPrefixes(data, k - 1) \X (0 .. (k - 1)) :
                     /\ \A x \in 1 .. sa[2] : sa[1][x].priority >= data[k].priority
                     /\ \A x \in (sa[2] + 1) .. (k - 1) :
                           sa[1][x].priority <= data[k].priority}}
SortedByPriority(data) == SortedPrefixes(data, Len(data))

\* PhasedGridOptimizer.load_data
phased_load_data ==
    /\ program = "PhasedGridOptimizer"
    /\ pc = "new"
    /\ \E files \in PhasedFiles :
          /\ gdf_batiments' = files[1]
          /\ gdf_infras' = files[2]
    /\ pc' = "loaded"
    /\ UNCHANGED <<program, results, phase_stats, chosen_log, grid_vars, entity_vars, analysis_vars>>

\* PhasedGridOptimizer.calc_costs
calc_costs ==
    /\ program = "PhasedGridOptimizer"
    /\ pc = "loaded"
    /\ \E sorted \in SortedByPriority([idx \in DOMAIN gdf_batiments |->
                                          DataRow(idx, gdf_batiments[idx], gdf_infras)]) :
          results' = sorted
    /\ pc' = "costed"
    /\ UNCHANGED <<program, gdf_batiments, gdf_infras, phase_stats, chosen_log, grid_vars,
                   entity_vars, analysis_vars>>

\* a sum and a product of floats of which one may be float('inf')
FAdd(x, y) == IF x = Inf \/ y = Inf THEN Inf ELSE x + y

\* PhasedGridOptimizer.PHASES, the weights in tenths
PHASES == <<4, 2, 2, 2>>

\* the positions, among the first k rows, of the rows whose hospital_mask
\* is mask, in order
RECURSIVE MaskPositions(_, _, _)
MaskPositions(rows, k, mask) ==
    IF k = 0 THEN <<>>
    ELSE IF hospital_mask[rows[k].type] = mask
         THEN Append(MaskPositions(rows, k - 1, mask), k)
         ELSE MaskPositions(rows, k - 1, mask)

\* others["total_cost"].sum() and .cumsum(), over the first k rows of the pool
RECURSIVE CumSum(_, _, _)
CumSum(rows, pool, k) ==
    IF k = 0 THEN 0 ELSE FAdd(CumSum(rows, pool, k - 1), rows[pool[k]].total_cost)

\* PoolTotal summing the hospitals too
PoolTotalAll(rows, others) ==
    CumSum(rows, [k \in 1 .. Len(rows) |-> k], Len(rows))

\* total_cost = others["total_cost"].sum(), the line 89
PoolTotal(rows, others) == CumSum(rows, others, Len(others))

\* WithinLimit with the test cumsum < limit
WithinLimitStrict(cumsum, total, pct10) ==
    IF total = Inf THEN cumsum # Inf
    ELSE IF cumsum = Inf THEN FALSE
    ELSE cumsum * 10 < total * pct10

\* cumsum <= total_cost * pct, for the weight pct10 / 10
WithinLimit(cumsum, total, pct10) ==
    IF total = Inf THEN TRUE
    ELSE IF cumsum = Inf THEN FALSE
    ELSE cumsum * 10 <= total * pct10

\* chosen = subset[subset["total_cost"].cumsum() <= limit], as positions in
\* the pool: the lines 100-102
ChosenOf(prev, total, p) ==
    {k \in DOMAIN prev.others :
        WithinLimit(CumSum(prev.rows, prev.others, k), total, PHASES[p])}

\* the lines 103-104 without the drop: the chosen rows stay in the pool
MarkAndKeep(prev, chosen, p) ==
    [rows |-> [j \in DOMAIN prev.rows |->
                  IF j \in chosen THEN [prev.rows[j] EXCEPT !.phase = p] ELSE prev.rows[j]],
     others |-> prev.others,
     chosen |-> Append(prev.chosen, chosen)]

\* the lines 103-104, for the set chosen of rows: the phase is written on
\* them and they leave the pool
MarkAndDrop(prev, chosen, p) ==
    [rows |-> [j \in DOMAIN prev.rows |->
                  IF j \in chosen THEN [prev.rows[j] EXCEPT !.phase = p] ELSE prev.rows[j]],
     others |-> SelectSeq(prev.others, LAMBDA j : j \notin chosen),
     chosen |-> Append(prev.chosen, chosen)]

\* one pass of the loop of the lines 99-105, from the rows and the pool prev
PhasePass(prev, total, p) ==
    MarkAndDrop(prev, {prev.others[k] : k \in ChosenOf(prev, total, p)}, p)

\* PhaseLoop that chooses nothing and takes the pool out of the frame
PhaseLoopDropRest(rows, others, total, p) ==
    [rows |-> SelectSeq(rows, LAMBDA row : row.phase = 0),
     others |-> <<>>,
     chosen |-> [q \in 1 .. p |-> {}]]

\* the loop of the lines 99-105 over the phases 1..p: the rows so far, the
\* pool that is left, and the rows chosen in each pass
RECURSIVE PhaseLoop(_, _, _, _)
PhaseLoop(rows, others, total, p) ==
    IF p = 0 THEN [rows |-> rows, others |-> others, chosen |-> <<>>]
    ELSE PhasePass(PhaseLoop(rows, others, total, p - 1), total, p)

\* PhasedGridOptimizer.optimize_phases
optimize_phases ==
    /\ program = "PhasedGridOptimizer"
    /\ pc = "costed"
    /\ LET others == MaskPositions(results, Len(results), FALSE)
           total == PoolTotal(results, others)
           marked == [j \in DOMAIN results |->
                         IF hospital_mask[results[j].type]
                         THEN [results[j] EXCEPT !.phase = 0]
                         ELSE results[j]]
       IN  \E done \in {PhaseLoop(marked, others, total, Len(PHASES))} :
              /\ results' = done.rows
              /\ chosen_log' = done.chosen
    /\ pc' = "phased"
    /\ UNCHANGED <<program, gdf_batiments, gdf_infras, phase_stats, grid_vars, entity_vars, analysis_vars>>

\* the ascending sequence of the members of a set of numbers
RECURSIVE Sorted(_)
Sorted(S) ==
    IF S = {} THEN <<>>
    ELSE LET m == CHOOSE x \in S : \A y \in S : x <= y
         IN  <<m>> \o Sorted(S \ {m})

\* subset["nb_maisons"].sum() and subset["total_cost"].sum() over the rows
\* 1..k of the phase
RECURSIVE PhaseHouses(_, _, _)
PhaseHouses(rows, phase, k) ==
    IF k = 0 THEN 0
    ELSE PhaseHouses(rows, phase, k - 1)
             + (IF rows[k].phase = phase THEN rows[k].nb_maisons ELSE 0)
RECURSIVE PhaseCost(_, _, _)
PhaseCost(rows, phase, k) ==
    IF k = 0 THEN 0
    ELSE IF rows[k].phase = phase
         THEN FAdd(PhaseCost(rows, phase, k - 1), rows[k].total_cost)
         ELSE PhaseCost(rows, phase, k - 1)

\* PhasedGridOptimizer.summarize: one entry per phase value that is not null
summarize ==
    /\ program = "PhasedGridOptimizer"
    /\ pc = "phased"
    /\ LET phases == Sorted({results[j].phase : j \in DOMAIN results} \ {None})
       IN  phase_stats' =
               [n \in DOMAIN phases |->
                   [phase |-> phases[n],
                    nb_buildings |-> Cardinality({j \in DOMAIN results :
                                                     results[j].phase = phases[n]}),
                    nb_houses |-> PhaseHouses(results, phases[n], Len(results)),
                    total_cost |-> PhaseCost(results, phases[n], Len(results))]]
    /\ pc' = "summarized"
    /\ UNCHANGED <<program, gdf_batiments, gdf_infras, results, chosen_log, grid_vars,
                   entity_vars, analysis_vars>>

----------------------------------------------------------------------------
(* The entity classes on their own *)

\* costs, times and line ids set_connection_info is called with
InfoArgs == {<<500, 2, 1>>, <<1000, 4, 2>>}

\* Batiment.set_connection_info
set_connection_info(b, cost, time, infrastructure_id) ==
    [b EXCEPT !.connection_cost = cost,
              !.connection_time = time,
              !.connected_via = infrastructure_id,
              !.connected = TRUE]

\* a call of set_connection_info on the building
Batiment_set_connection_info ==
    /\ program = "Entities"
    /\ \E args \in InfoArgs :
          bat' = set_connection_info(bat, args[1], args[2], args[3])
    /\ UNCHANGED <<program, pc, line, grid_vars, phased_vars, analysis_vars>>

\* a call of add_building on the line, with any building id
Infrastructure_add_building ==
    /\ program = "Entities"
    /\ \E building_id \in 1 .. MaxBat :
          line' = add_building(line, building_id)
    /\ UNCHANGED <<program, pc, bat, grid_vars, phased_vars, analysis_vars>>

----------------------------------------------------------------------------
(* analyze_grid_connections *)

\* the rows of the network sheet: a cost and a number of connections; the
\* sheet has no source or target column, so that build_graph names the ends
\* of the row idx as idx and idx + 1
NetworkCosts == {0, 40, 60}
NetworkPrises == {1, 2}
NetworkSheets == SeqsUpTo([cost : NetworkCosts, nb_prises : NetworkPrises], 1, MaxConn)

\* the budgets create_connection_plan is called with
PlanBudgets == {None, 0, 90, 100}

\* build_graph: the costs dict, one entry per row, in the order of the rows
build_graph ==
    /\ program = "Analyzer"
    /\ pc = "new"
    /\ \E df \in NetworkSheets :
          costs' = [k \in DOMAIN df |->
                       [source |-> k - 1, target |-> k,
                        cost |-> df[k].cost, connections |-> df[k].nb_prises]]
    /\ pc' = "graph"
    /\ UNCHANGED <<connection_analysis, plan_budget, plan_result>>
    /\ UNCHANGED <<program, grid_vars, phased_vars, entity_vars>>

\* calculate_priority_metric with shared_lines = 0, as the fraction
\* num / den; float('inf') is the fraction 1 / 0
calculate_priority_metric(cost, nb_connections) ==
    IF cost = 0 THEN [num |-> 1, den |-> 0]
    ELSE [num |-> nb_connections, den |-> cost]

\* x > y on two priority scores
PriorityGreater(x, y) == x.num * y.den > y.num * x.den

\* the record analyze_connections builds for one entry of costs
Analysis(info) ==
    [source |-> info.source,
     target |-> info.target,
     cost |-> info.cost,
     connections |-> info.connections,
     cost_per_connection |-> IF info.connections > 0
                             THEN <<info.cost, info.connections>> ELSE <<1, 0>>,
     priority_score |-> calculate_priority_metric(info.cost, info.connections)]

\* one insertion of list.sort(key=priority_score, reverse=True): e goes behind
\* every record whose score is greater than or equal to its own
RECURSIVE InsertByPriority(_, _)
InsertByPriority(sorted, e) ==
    IF sorted = <<>> THEN <<e>>
    ELSE IF PriorityGreater(e.priority_score, Head(sorted).priority_score)
         THEN <<e>> \o sorted
         ELSE <<Head(sorted)>> \o InsertByPriority(Tail(sorted), e)

\* connection_analysis.sort(key=priority_score, reverse=True) on the first k
\* records: stable, descending
RECURSIVE SortByPriority(_, _)
SortByPriority(entries, k) ==
    IF k = 0 THEN <<>>
    ELSE InsertByPriority(SortByPriority(entries, k - 1), Analysis(entries[k]))

\* analyze_connections
analyze_connections ==
    /\ program = "Analyzer"
    /\ pc = "graph"
    /\ connection_analysis' = SortByPriority(costs, Len(costs))
    /\ pc' = "analyzed"
    /\ UNCHANGED <<costs, plan_budget, plan_result>>
    /\ UNCHANGED <<program, grid_vars, phased_vars, entity_vars>>

\* the first test of the loop: "budget and ..." is false for None and for 0
OverBudget(total, conn, bud) ==
    bud # None /\ bud # 0 /\ total + conn.cost > bud

\* PlanTurn going on to the next connection where the code leaves the loop
PlanTurnContinue(st, conn, bud) ==
    IF st.stopped \/ OverBudget(st.total_cost, conn, bud) THEN st
    ELSE [plan |-> Append(st.plan, conn),
          total_cost |-> st.total_cost + conn.cost,
          total_connections |-> st.total_connections + conn.connections,
          connected_buildings |-> st.connected_buildings \cup {conn.source, conn.target},
          stopped |-> FALSE]

\* one turn of the loop of create_connection_plan; stopped is set by break
PlanTurn(st, conn, bud) ==
    IF st.stopped THEN st
    ELSE IF OverBudget(st.total_cost, conn, bud) THEN [st EXCEPT !.stopped = TRUE]
    ELSE [plan |-> Append(st.plan, conn),
          total_cost |-> st.total_cost + conn.cost,
          total_connections |-> st.total_connections + conn.connections,
          connected_buildings |-> st.connected_buildings \cup {conn.source, conn.target},
          stopped |-> FALSE]

\* the loop over connection_analysis, after its first k records
RECURSIVE PlanLoop(_, _, _)
PlanLoop(analysis, k, bud) ==
    IF k = 0
    THEN [plan |-> <<>>, total_cost |-> 0, total_connections |-> 0,
          connected_buildings |-> {}, stopped |-> FALSE]
    ELSE PlanTurn(PlanLoop(analysis, k - 1, bud), analysis[k], bud)

\* create_connection_plan(connection_analysis, budget)
create_connection_plan ==
    /\ program = "Analyzer"
    /\ pc = "analyzed"
    /\ \E bud \in PlanBudgets :
          /\ plan_budget' = bud
          /\ \E done \in {PlanLoop(connection_analysis, Len(connection_analysis), bud)} :
                plan_result' = [plan |-> done.plan,
                                total_cost |-> done.total_cost,
                                total_connections |-> done.total_connections,
                                connected_buildings |-> done.connected_buildings]
    /\ pc' = "planned"
    /\ UNCHANGED <<costs, connection_analysis>>
    /\ UNCHANGED <<program, grid_vars, phased_vars, entity_vars>>

----------------------------------------------------------------------------
(* The scripts *)

\* GridOptimizer.__init__, PhasedGridOptimizer.__init__, and one Batiment
\* and one Infrastructure as their constructors leave them
Init ==
    /\ program \in {"GridOptimizer", "PhasedGridOptimizer", "Entities", "Analyzer"}
    /\ pc = "new"
    /\ batiments = <<>>
    /\ infrastructures = <<>>
    /\ connection_plan = <<>>
    /\ total_cost = 0
    /\ total_time = 0
    /\ buildings_connected = 0
    /\ houses_connected = 0
    /\ calls = 0
    /\ budget = None
    /\ max_time = None
    /\ building_scores = <<>>
    /\ scan_log = <<>>
    /\ gdf_batiments = <<>>
    /\ gdf_infras = <<>>
    /\ results = <<>>
    /\ phase_stats = <<>>
    /\ chosen_log = <<>>
    /\ bat = IF program = "Entities" THEN Batiment("habitation", 5, None) ELSE None
    /\ line = IF program = "Entities" THEN Infrastructure("aerien", None) ELSE None
    /\ costs = <<>>
    /\ connection_analysis = <<>>
    /\ plan_budget = None
    /\ plan_result = None

Next ==
    \/ load_data
    \/ calculate_connection_costs
    \/ optimize_connections
    \/ phased_load_data
    \/ calc_costs
    \/ optimize_phases
    \/ summarize
    \/ Batiment_set_connection_info
    \/ Infrastructure_add_building
    \/ build_graph
    \/ analyze_connections
    \/ create_connection_plan

Spec == Init /\ [][Next]_vars

----------------------------------------------------------------------------
(* Properties of optimize_connections *)

\* the turns of the latest call in which the candidate was accepted
AcceptedTurns == SelectSeq(scan_log, LAMBDA e : e.accepted)

\* the records the latest call appended to connection_plan
LatestRecords ==
    SubSeq(connection_plan, Len(connection_plan) - Len(AcceptedTurns) + 1,
           Len(connection_plan))

\* the sum of field f over the records of s
RECURSIVE SumCost(_)
SumCost(s) == IF s = <<>> THEN 0 ELSE s[1].cost + SumCost(Tail(s))
RECURSIVE SumTime(_)
SumTime(s) == IF s = <<>> THEN 0 ELSE s[1].time + SumTime(Tail(s))

\* C1: in a call with a budget and/or a max_time, at every acceptance the
\* cumulative cost before it plus the record's cost is <= budget and the
\* cumulative time before it plus the record's time is <= max_time; hence the
\* final total_cost is <= budget and the final total_time is <= max_time.
C1_CapsRespected ==
    calls > 0 =>
        \A turns \in {AcceptedTurns} : \A records \in {LatestRecords} :
        /\ \A i \in 1 .. Len(turns) :
              /\ budget # None =>
                    turns[i].cost_before + records[i].cost <= budget
              /\ max_time # None =>
                    turns[i].time_before + records[i].time <= max_time
              /\ records[i].building_id = turns[i].bat_id
              /\ turns[i].cost_before = SumCost(SubSeq(records, 1, i - 1))
              /\ turns[i].time_before = SumTime(SubSeq(records, 1, i - 1))
        /\ budget # None => total_cost <= budget
        /\ max_time # None => total_time <= max_time
        /\ total_cost = SumCost(records)
        /\ total_time = SumTime(records)

\* C1 witness: a call with both caps in which a second acceptance brings the
\* cumulative cost exactly to the budget, after a rejection.
C1_Witness ==
    /\ calls > 0 /\ budget # None /\ max_time # None
    /\ \E i \in 1 .. Len(AcceptedTurns) :
          /\ AcceptedTurns[i].cost_before > 0
          /\ AcceptedTurns[i].cost_before + LatestRecords[i].cost = budget
    /\ \E k \in 1 .. Len(scan_log) : ~scan_log[k].accepted
    /\ total_cost = budget

\* what the accepted turns before turn k have cost, and taken
RECURSIVE CostBeforeTurn(_)
CostBeforeTurn(k) ==
    IF k <= 1 THEN 0
    ELSE CostBeforeTurn(k - 1)
         + (IF scan_log[k - 1].accepted
            THEN batiments[scan_log[k - 1].bat_id].connection_cost ELSE 0)
RECURSIVE TimeBeforeTurn(_)
TimeBeforeTurn(k) ==
    IF k <= 1 THEN 0
    ELSE TimeBeforeTurn(k - 1)
         + (IF scan_log[k - 1].accepted
            THEN batiments[scan_log[k - 1].bat_id].connection_time ELSE 0)

\* C2: skip-and-continue.  Every ranked candidate has its turn, a rejection
\* never ends the scan, and the candidate at turn k is accepted exactly when
\* the cumulative cost of the acceptances before it plus its cost is <= budget
\* (if set) and the same for the time and max_time (if set), equality included.
C2_SkipAndContinue ==
    calls > 0 =>
        /\ Len(scan_log) = Len(building_scores)
        /\ \A k \in 1 .. Len(scan_log) :
              LET b == batiments[scan_log[k].bat_id]
              IN  /\ scan_log[k].bat_id = building_scores[k].bat_id
                  /\ scan_log[k].cost_before = CostBeforeTurn(k)
                  /\ scan_log[k].time_before = TimeBeforeTurn(k)
                  /\ scan_log[k].accepted <=>
                        /\ budget = None \/ CostBeforeTurn(k) + b.connection_cost <= budget
                        /\ max_time = None
                              \/ TimeBeforeTurn(k) + b.connection_time <= max_time

\* C2 witness: a candidate is rejected and a later one is accepted, the
\* accepted one reaching the budget exactly.
C2_Witness ==
    /\ calls > 0 /\ budget # None
    /\ \E j, k \in 1 .. Len(scan_log) :
          /\ j < k
          /\ ~scan_log[j].accepted
          /\ scan_log[k].accepted
          /\ scan_log[k].cost_before
                + batiments[scan_log[k].bat_id].connection_cost = budget

\* composite score of the building bat_id, from its fields: x > y and x = y
CompositeGreater(i, j) ==
    batiments[i].priority_score * batiments[i].nb_maisons * batiments[j].connection_cost
        > batiments[j].priority_score * batiments[j].nb_maisons * batiments[i].connection_cost
CompositeEqual(i, j) ==
    batiments[i].priority_score * batiments[i].nb_maisons * batiments[j].connection_cost
        = batiments[j].priority_score * batiments[j].nb_maisons * batiments[i].connection_cost

\* C3: the candidates are scanned in non-increasing order of composite score,
\* two candidates of equal score in the order of the buildings map (and are
\* recorded in it when both are accepted); with equal connection cost a
\* hospital of 10 houses comes before a house of 5.
C3_RankingOrder ==
    calls > 0 =>
        /\ \A p, q \in 1 .. Len(building_scores) :
              p < q =>
                 LET i == building_scores[p].bat_id
                     j == building_scores[q].bat_id
                 IN  /\ ~CompositeGreater(j, i)
                     /\ CompositeEqual(i, j) => i < j
        /\ \A p, q \in 1 .. Len(building_scores) :
              LET i == building_scores[p].bat_id
                  j == building_scores[q].bat_id
              IN  (/\ batiments[i].type_batiment = "ho^pital"
                   /\ batiments[i].nb_maisons = 10
                   /\ batiments[j].type_batiment = "habitation"
                   /\ batiments[j].nb_maisons = 5
                   /\ batiments[i].connection_cost = batiments[j].connection_cost)
                  => p < q
        /\ \A records \in {LatestRecords} : \A p, q \in 1 .. Len(records) :
              (p < q /\ CompositeEqual(records[p].building_id, records[q].building_id))
                 => records[p].building_id < records[q].building_id

\* C3 witness: two candidates of equal score are both accepted, and a house
\* of 5 that comes first in the map is ranked behind a hospital of 10 of the
\* same cost.
C3_Witness ==
    /\ calls > 0
    /\ \E p, q \in 1 .. Len(LatestRecords) :
          /\ p < q
          /\ CompositeEqual(LatestRecords[p].building_id, LatestRecords[q].building_id)
    /\ \E p, q \in 1 .. Len(building_scores) :
          LET i == building_scores[p].bat_id
              j == building_scores[q].bat_id
          IN  /\ p < q /\ j < i
              /\ batiments[i].type_batiment = "ho^pital" /\ batiments[i].nb_maisons = 10
              /\ batiments[j].type_batiment = "habitation" /\ batiments[j].nb_maisons = 5
              /\ batiments[i].connection_cost = batiments[j].connection_cost

----------------------------------------------------------------------------
(* Properties of calculate_connection_costs *)

Resolved(b) == b.connected_via # None

\* the measured distance of a building and a line that both have a geometry
Measured(b, l) ==
    IF b.geometry >= l.geometry THEN b.geometry - l.geometry ELSE l.geometry - b.geometry

\* the lowest candidate cost of building b over all lines
BestCandidateCost(b) ==
    CHOOSE c \in {Candidate(b, infrastructures[k]).cost : k \in DOMAIN infrastructures} :
        \A k \in DOMAIN infrastructures : c <= Candidate(b, infrastructures[k]).cost

\* C4: every resolved building has connection_cost = max(best candidate cost,
\* MIN_CONNECTION_COST) >= 50, and its connection_time is the time of the
\* chosen candidate, with no floor.
C4_CostFloor ==
    \A i \in DOMAIN batiments :
        Resolved(batiments[i]) =>
            LET b == batiments[i]
                best == BestCandidateCost(b)
            IN  /\ b.connection_cost = (IF best >= 50 THEN best ELSE 50)
                /\ b.connection_cost >= 50
                /\ b.connection_time = Candidate(b, infrastructures[b.connected_via]).time

\* C4 witness: a resolved building whose best candidate costs less than 50, so
\* that the floor sets its cost, while its time stays below any floor.
C4_Witness ==
    \E i \in DOMAIN batiments :
        /\ Resolved(batiments[i])
        /\ BestCandidateCost(batiments[i]) < 50
        /\ batiments[i].connection_cost = 50
        /\ batiments[i].connection_time = 0
        /\ \E k \in DOMAIN infrastructures :
              Candidate(batiments[i], infrastructures[k]).cost > 50

\* C5: once the costs are calculated, every building (of a run with at least
\* one line) is connected via a line of minimal candidate cost, the first such
\* line in the order of the infrastructure map.
C5_CheapestFirst ==
    (pc = "costed" /\ infrastructures # <<>>) =>
        \A i \in DOMAIN batiments :
            LET b == batiments[i]
            IN  /\ b.connected_via \in DOMAIN infrastructures
                /\ \A k \in DOMAIN infrastructures :
                      LET chosen == Candidate(b, infrastructures[b.connected_via]).cost
                          other == Candidate(b, infrastructures[k]).cost
                      IN  /\ chosen <= other
                          /\ k < b.connected_via => chosen < other

\* C5 witness: the first two lines tie on the minimal cost, a later line
\* or none costs more, and the first is chosen.
C5_Witness ==
    /\ pc = "costed"
    /\ Len(infrastructures) >= 2
    /\ \E i \in DOMAIN batiments :
          /\ batiments[i].connected_via = 1
          /\ Candidate(batiments[i], infrastructures[1]).cost
                = Candidate(batiments[i], infrastructures[2]).cost
          /\ Candidate(batiments[i], infrastructures[1]).cost > 0

\* C6: a measured distance strictly below 1 is costed as 10 (cost
\* 10 * cost_per_meter, time 10 * time_per_meter); a distance of 1 or more is
\* used unchanged.  Seen on every building and line that both have a
\* geometry: the line bounds the cost of the building, and sets cost and time
\* when it is the chosen one.
C6_ClampBelowOne ==
    pc = "costed" =>
        \A i \in DOMAIN batiments : \A k \in DOMAIN infrastructures :
            LET b == batiments[i]
                l == infrastructures[k]
                used == IF Measured(b, l) < 1 THEN 10 ELSE Measured(b, l)
            IN  (b.geometry # None /\ l.geometry # None) =>
                    /\ b.connection_cost <= (IF used * l.cost_per_meter >= 50
                                             THEN used * l.cost_per_meter ELSE 50)
                    /\ b.connected_via = k =>
                          /\ b.connection_cost = (IF used * l.cost_per_meter >= 50
                                                  THEN used * l.cost_per_meter ELSE 50)
                          /\ b.connection_time = used * l.time_per_meter

\* C6 witness: a building is connected via a line at the measured distance 0
\* and pays ten metres of it.
C6_Witness ==
    /\ pc = "costed"
    /\ \E i \in DOMAIN batiments :
          LET b == batiments[i]
          IN  /\ Resolved(b)
              /\ b.geometry # None
              /\ infrastructures[b.connected_via].geometry = b.geometry
              /\ infrastructures[b.connected_via].cost_per_meter > 0
              /\ b.connection_cost = 10 * infrastructures[b.connected_via].cost_per_meter
              /\ b.connection_time = 10 * infrastructures[b.connected_via].time_per_meter

\* the first line of the lowest cost_per_meter
FirstCheapestPerMeter ==
    CHOOSE k \in DOMAIN infrastructures :
        \A j \in DOMAIN infrastructures :
            /\ infrastructures[k].cost_per_meter <= infrastructures[j].cost_per_meter
            /\ j < k => infrastructures[k].cost_per_meter < infrastructures[j].cost_per_meter

\* C7: a building/line pair in which a geometry is absent is costed with the
\* distance 50 and the building is resolved all the same; a building with no
\* geometry is connected via the first line of the lowest cost_per_meter.
C7_MissingGeometry ==
    pc = "costed" =>
        \A i \in DOMAIN batiments :
            LET b == batiments[i]
            IN  /\ \A k \in DOMAIN infrastructures :
                      LET l == infrastructures[k]
                      IN  (b.geometry = None \/ l.geometry = None) =>
                              /\ Resolved(b)
                              /\ b.connection_cost <= (IF 50 * l.cost_per_meter >= 50
                                                       THEN 50 * l.cost_per_meter ELSE 50)
                              /\ b.connected_via = k =>
                                    /\ b.connection_cost = (IF 50 * l.cost_per_meter >= 50
                                                            THEN 50 * l.cost_per_meter
                                                            ELSE 50)
                                    /\ b.connection_time = 50 * l.time_per_meter
                /\ (b.geometry = None /\ infrastructures # <<>>) =>
                      b.connected_via = FirstCheapestPerMeter

\* C7 witness: a building with no geometry is connected via the second line,
\* the cheaper per metre, at fifty metres of it.
C7_Witness ==
    /\ pc = "costed"
    /\ \E i \in DOMAIN batiments :
          /\ batiments[i].geometry = None
          /\ batiments[i].connected_via = 2
          /\ infrastructures[2].cost_per_meter > 0
          /\ batiments[i].connection_cost = 50 * infrastructures[2].cost_per_meter
          /\ batiments[i].connection_time = 50 * infrastructures[2].time_per_meter

\* C8: with no infrastructure line, calculate_connection_costs leaves every
\* building unresolved (cost 0.0, time 0.0, connected_via None), and
\* optimize_connections ranks no unresolved building: the call completes,
\* emits no record for it and never marks it connected.
C8_NoInfrastructure ==
    /\ (pc = "costed" /\ infrastructures = <<>>) =>
          \A i \in DOMAIN batiments :
              /\ batiments[i].connection_cost = 0
              /\ batiments[i].connection_time = 0
              /\ batiments[i].connected_via = None
    /\ \A i \in DOMAIN batiments :
          ~Resolved(batiments[i]) =>
              /\ ~batiments[i].connected
              /\ \A k \in DOMAIN building_scores : building_scores[k].bat_id # i
              /\ \A k \in DOMAIN connection_plan : connection_plan[k].building_id # i
    /\ (pc = "costed" /\ infrastructures = <<>> /\ calls > 0) =>
          /\ connection_plan = <<>>
          /\ buildings_connected = 0
          /\ total_cost = 0

\* C8 witness: optimize_connections has completed on several buildings and
\* no line.
C8_Witness ==
    /\ pc = "costed" /\ infrastructures = <<>> /\ calls > 0
    /\ Len(batiments) > 1

----------------------------------------------------------------------------
(* Properties of the priority score *)

\* the <<type, house count, score>> of the buildings of the run: the
\* Batiment objects of GridOptimizer, the rows of PhasedGridOptimizer
Scored ==
    {<<batiments[i].type_batiment, batiments[i].nb_maisons, batiments[i].priority_score>> :
        i \in DOMAIN batiments}
    \cup {<<results[j].type, results[j].nb_maisons, results[j].priority>> :
            j \in DOMAIN results}

\* a label in which no keyword of a category occurs
UnrecognizedLabels ==
    {label \in BatTypes \cup {Lower(Strip(row.type_batiment)) : row \in PhasedRows} :
        \A k \in {"ho^pital", "hopital", "hospital", "e'cole", "ecole", "habitation"} :
            ~Contains(Lower(label), k)}
Unrecognized(label) == label \in UnrecognizedLabels

\* C10: priority_score = TYPE_WEIGHT[type] * house_count with the weights
\* hospital 100, school 50, residential 10 and 1 for an unrecognized type;
\* for a fixed type it is strictly increasing in the house count, and for
\* equal positive house counts hospital > school > residential.
C10_PriorityScore ==
    /\ \A x \in Scored :
          /\ x[1] = "ho^pital" => x[3] = 100 * x[2]
          /\ x[1] = "e'cole" => x[3] = 50 * x[2]
          /\ x[1] = "habitation" => x[3] = 10 * x[2]
          /\ Unrecognized(x[1]) => x[3] = 1 * x[2]
    /\ \A x, y \in Scored :
          /\ (x[1] = y[1] /\ x[2] < y[2]) => x[3] < y[3]
          /\ (x[2] = y[2] /\ x[2] > 0) =>
                /\ (x[1] = "ho^pital" /\ y[1] = "e'cole") => x[3] > y[3]
                /\ (x[1] = "e'cole" /\ y[1] = "habitation") => x[3] > y[3]
                /\ (x[1] = "ho^pital" /\ y[1] = "habitation") => x[3] > y[3]

\* C10 witness: a hospital, a school and a house of the same house count, in
\* the rows of calc_costs.
C10_Witness ==
    /\ pc = "costed"
    /\ \E x, y, z \in Scored :
          /\ x[1] = "ho^pital" /\ y[1] = "e'cole" /\ z[1] = "habitation"
          /\ x[2] = y[2] /\ y[2] = z[2]
          /\ x[3] > y[3] /\ y[3] > z[3]
          /\ \E j \in DOMAIN results : results[j].priority = x[3]

----------------------------------------------------------------------------
(* Properties of optimize_phases *)

\* C9: a building with no resolved connection cost (no line: calc_costs
\* leaves its total_cost at float('inf')) is assigned to none of the phases
\* 1..4 by optimize_phases.
C9_UnresolvedNotPhased ==
    pc = "phased" =>
        \A j \in DOMAIN results :
            results[j].total_cost = Inf => results[j].phase \notin 1 .. 4

----------------------------------------------------------------------------
(* Properties of the type weights *)

\* the keywords of the three categories
HospitalKeywords == {"ho^pital", "hopital", "hospital"}
SchoolKeywords == {"e'cole", "ecole"}
ResidentialKeywords == {"habitation"}

\* a label that holds one of the keywords, in any letter case
HasKeyword(label, keywords) ==
    \E lowered \in {Lower(label)} : \E k \in keywords : Contains(lowered, k)

\* C11: every label that holds a hospital keyword, in any letter case, has
\* the weight 100, every label that holds a school keyword the weight 50 and
\* every label that holds a residential keyword the weight 10, in
\* Batiment.calculate_priority and in PhasedGridOptimizer._priority; a row
\* optimize_phases puts into phase 0 has the hospital weight.
C11_TolerantWeight ==
    /\ \A x \in Scored :
          /\ HasKeyword(x[1], HospitalKeywords) => x[3] = 100 * x[2]
          /\ (~HasKeyword(x[1], HospitalKeywords) /\ HasKeyword(x[1], SchoolKeywords))
                => x[3] = 50 * x[2]
          /\ (~HasKeyword(x[1], HospitalKeywords) /\ ~HasKeyword(x[1], SchoolKeywords)
                /\ HasKeyword(x[1], ResidentialKeywords))
                => x[3] = 10 * x[2]
    /\ \A j \in DOMAIN results :
          results[j].phase = 0 => results[j].priority = 100 * results[j].nb_maisons

----------------------------------------------------------------------------
(* Properties of Infrastructure.add_building *)

\* the ids registered with a line
RegisteredIds(infra) ==
    {infra.buildings_connected[k] : k \in DOMAIN infra.buildings_connected}

\* shared says that more than one distinct id is registered, and no id is
\* registered twice
SharedIsSeveral(infra) ==
    /\ infra.shared = (Cardinality(RegisteredIds(infra)) > 1)
    /\ Cardinality(RegisteredIds(infra)) = Len(infra.buildings_connected)

\* from before to after, the flag is never lowered, and it is raised exactly
\* when the second distinct id arrives
SharedStep(before, after) ==
    /\ before.shared => after.shared
    /\ (~before.shared /\ after.shared)
          = (Cardinality(RegisteredIds(before)) <= 1
                /\ Cardinality(RegisteredIds(after)) > 1)

\* C12: after any sequence of add_building calls, with ids registered
\* before or new ones, shared = (more than one distinct id registered) and
\* buildings_connected holds no id twice; shared becomes true exactly when a
\* second distinct id is registered and is never reset afterwards.  It is
\* stated on the line used on its own and on every line of GridOptimizer.
C12_SharedFlag ==
    [][/\ program = "Entities" => (SharedIsSeveral(line') /\ SharedStep(line, line'))
       /\ \A k \in DOMAIN infrastructures' : SharedIsSeveral(infrastructures'[k])
       /\ \A k \in DOMAIN infrastructures \cap DOMAIN infrastructures' :
             SharedStep(infrastructures[k], infrastructures'[k])]_vars

\* C12 witness: a second optimize_connections call has registered the two
\* buildings of a shared line again, and each is still registered once.
C12_Witness ==
    /\ calls = 2
    /\ Len(connection_plan) = 4
    /\ \E k \in DOMAIN infrastructures :
          /\ infrastructures[k].shared
          /\ Len(infrastructures[k].buildings_connected) = 2

----------------------------------------------------------------------------
(* Properties of optimize_phases: the hospitals *)

\* optimize_phases has run
Phased == program = "PhasedGridOptimizer" /\ pc \in {"phased", "summarized"}

\* the rows of a phase, in the order of the data frame
PhaseMembers(phase) ==
    SelectSeq([j \in DOMAIN results |-> j], LAMBDA j : results[j].phase = phase)

\* the rows that are not hospitals, in the order of the data frame
NonHospitals ==
    SelectSeq([j \in DOMAIN results |-> j], LAMBDA j : ~hospital_mask[results[j].type])

\* the sum of the costs of the rows js, where every cost is finite
RECURSIVE CostOf(_)
CostOf(js) == IF js = <<>> THEN 0 ELSE results[Head(js)].total_cost + CostOf(Tail(js))

\* every building has a resolved cost
AllResolved == \A j \in DOMAIN results : results[j].total_cost # Inf

\* C13: optimize_phases puts every hospital into phase 0 whatever its cost
\* and into no phase 1..4, and the hospitals' costs are not counted in the
\* total the limits are taken from: phase 1 holds costs up to 40 % of the
\* total of the other buildings, and the first building left behind would
\* take it above that.
C13_HospitalsFirst ==
    Phased =>
        /\ \A j \in DOMAIN results :
              hospital_mask[results[j].type] <=> results[j].phase = 0
        /\ AllResolved =>
              /\ CostOf(PhaseMembers(1)) * 10 <= 4 * CostOf(NonHospitals)
              /\ \A j \in DOMAIN results :
                    (/\ ~hospital_mask[results[j].type]
                     /\ results[j].phase # 1)
                        => (CostOf(PhaseMembers(1)) + results[j].total_cost) * 10
                               > 4 * CostOf(NonHospitals)

\* C13 witness: a hospital in phase 0, beside other buildings of which one
\* is in phase 1 and one is in no phase.
C13_Witness ==
    /\ Phased
    /\ AllResolved
    /\ \E h, j, u \in DOMAIN results :
          /\ hospital_mask[results[h].type] /\ results[h].phase = 0
          /\ results[j].phase = 1
          /\ ~hospital_mask[results[u].type] /\ results[u].phase = None

----------------------------------------------------------------------------
(* Properties of optimize_phases: the partition *)

\* C14: after optimize_phases the phases partition the buildings they hold:
\* no row is chosen in two passes of the loop, a row chosen in the pass p has
\* the phase p and no other row has, so a row moved into a phase is in the
\* pool of no later phase; every building id has one row.
C14_PhasePartition ==
    Phased =>
        /\ Len(chosen_log) = Len(PHASES)
        /\ \A p, q \in DOMAIN chosen_log :
              p # q => chosen_log[p] \cap chosen_log[q] = {}
        /\ \A p \in DOMAIN chosen_log : \A j \in DOMAIN results :
              (j \in chosen_log[p]) <=> (results[j].phase = p)
        /\ \A i, j \in DOMAIN results : results[i].id = results[j].id => i = j

\* C14 witness: two phases in a row have members, of resolved costs.
C14_Witness ==
    /\ Phased
    /\ AllResolved
    /\ chosen_log[1] # {}
    /\ chosen_log[2] # {}

----------------------------------------------------------------------------
(* Properties of optimize_phases: the limits *)

\* the pool the pass p finds: the rows that are not hospitals and were
\* chosen in no pass before p, in the order of the data frame
PoolAt(p) ==
    SelectSeq(NonHospitals, LAMBDA j : \A q \in 1 .. (p - 1) : j \notin chosen_log[q])

\* the running cost of the first m rows of the pool of the pass p stays
\* within weight_p * total cost of all the buildings that are not hospitals
PrefixFits(p, m) ==
    CostOf(SubSeq(PoolAt(p), 1, m)) * 10 <= PHASES[p] * CostOf(NonHospitals)

\* C15: for each phase p = 1..4 in this order, with the weights 0.4, 0.2,
\* 0.2, 0.2, the members of the phase are exactly the longest prefix of the
\* pool left at that point, in its priority-descending order, whose running
\* cost stays <= weight_p * total cost of the whole pool of non-hospitals.
\* The limit takes nothing over from the phases before, so a phase whose
\* first building is above the limit has no member, and no building behind
\* one that does not fit is taken.  Stated where every cost is resolved.
C15_LongestPrefix ==
    (Phased /\ AllResolved) =>
        /\ \A i, j \in DOMAIN results :
              i < j => results[i].priority >= results[j].priority
        /\ \A p \in DOMAIN PHASES :
              \E m \in 0 .. Len(PoolAt(p)) :
                  /\ chosen_log[p] = {PoolAt(p)[k] : k \in 1 .. m}
                  /\ \A k \in 0 .. m : PrefixFits(p, k)
                  /\ m < Len(PoolAt(p)) => ~PrefixFits(p, m + 1)

\* C15 witness: phase 1 has members and has not used up its limit, the
\* first building left is above the limit of phase 2, and phase 2 is empty.
C15_Witness ==
    /\ Phased
    /\ AllResolved
    /\ chosen_log[1] # {}
    /\ CostOf(PhaseMembers(1)) * 10 < PHASES[1] * CostOf(NonHospitals)
    /\ PoolAt(2) # <<>>
    /\ chosen_log[2] = {}
    /\ ~PrefixFits(2, 1)

----------------------------------------------------------------------------
(* Properties of optimize_phases: the buildings left *)

\* the rows with their phase blanked
Unphased(rows) == [j \in DOMAIN rows |-> [rows[j] EXCEPT !.phase = None]]

\* the number of buildings the entries of phase_stats count
RECURSIVE StatsBuildings(_)
StatsBuildings(stats) ==
    IF stats = <<>> THEN 0 ELSE Head(stats).nb_buildings + StatsBuildings(Tail(stats))

\* C16: a building still in the pool after phase 4 is not dropped.
\* optimize_phases changes nothing of results but the phases, so the
\* buildings after it are the buildings before it, and a building that is
\* not a hospital and was chosen in no pass has a null phase; summarize
\* leaves results as it is and counts in phase_stats the buildings that
\* have a phase.
C16_UnassignedKept ==
    [][/\ (program = "PhasedGridOptimizer" /\ pc = "costed" /\ pc' = "phased") =>
             /\ Unphased(results') = results
             /\ \A j \in DOMAIN results' :
                   (/\ ~hospital_mask[results'[j].type]
                    /\ \A p \in DOMAIN chosen_log' : j \notin chosen_log'[p])
                       <=> results'[j].phase = None
       /\ (program = "PhasedGridOptimizer" /\ pc = "phased" /\ pc' = "summarized") =>
             /\ results' = results
             /\ StatsBuildings(phase_stats')
                    = Cardinality({j \in DOMAIN results : results[j].phase # None})]_vars

\* C16 witness: every phase 1..4 has taken a building, one building is left
\* with a null phase, and summarize has run.
C16_Witness ==
    /\ program = "PhasedGridOptimizer"
    /\ pc = "summarized"
    /\ AllResolved
    /\ \A p \in DOMAIN chosen_log : chosen_log[p] # {}
    /\ \E j \in DOMAIN results : results[j].phase = None
    /\ Len(phase_stats) >= Len(PHASES)

----------------------------------------------------------------------------
(* Properties of optimize_connections: the frame *)

\* a step of optimize_connections
AllocatorStep == program = "GridOptimizer" /\ calls' = calls + 1

\* the records a step appends to connection_plan
NewRecords == SubSeq(connection_plan', Len(connection_plan) + 1, Len(connection_plan'))

\* C17: optimize_connections leaves connected_via, connection_cost and
\* connection_time of every building, accepted or rejected, as
\* calculate_connection_costs set them; the infrastructure_id, cost and time
\* of each record it emits are those values of the building, and the line
\* the building is registered with is its connected_via, and no other line.
C17_NoReroute ==
    [][AllocatorStep =>
          /\ DOMAIN batiments' = DOMAIN batiments
          /\ \A k \in DOMAIN batiments :
                /\ batiments'[k].connected_via = batiments[k].connected_via
                /\ batiments'[k].connection_cost = batiments[k].connection_cost
                /\ batiments'[k].connection_time = batiments[k].connection_time
                /\ [batiments'[k] EXCEPT !.connected = FALSE]
                       = ResolveBatiment(Batiment(batiments[k].type_batiment,
                                                  batiments[k].nb_maisons,
                                                  batiments[k].geometry),
                                         infrastructures)
          /\ \A n \in DOMAIN NewRecords :
                LET rec == NewRecords[n]
                    b == batiments[rec.building_id]
                IN  /\ rec.infrastructure_id = b.connected_via
                    /\ rec.cost = b.connection_cost
                    /\ rec.time = b.connection_time
                    /\ \A i \in DOMAIN infrastructures' :
                          InSeq(rec.building_id, infrastructures'[i].buildings_connected)
                              <=> i = b.connected_via]_vars

\* C17 witness: a call has accepted a building routed to the second line,
\* in a run where a cheaper line comes after a dearer one.
C17_Witness ==
    /\ program = "GridOptimizer"
    /\ calls > 0
    /\ \E n \in DOMAIN connection_plan :
          /\ connection_plan[n].infrastructure_id = 2
          /\ batiments[connection_plan[n].building_id].connected
          /\ batiments[connection_plan[n].building_id].connected_via = 2

----------------------------------------------------------------------------
(* Properties of the connected flag *)

\* C18: the connected flag of a building flips to true only inside
\* optimize_connections (no other operation on a building, in particular
\* setting its connection cost, time and line, sets it), and after
\* optimize_connections a building is connected if and only if a record
\* was emitted for it.
C18_ConnectedOnlyByAllocator ==
    [][/\ program = "Entities" => ((~bat.connected /\ bat'.connected) => AllocatorStep)
       /\ \A k \in DOMAIN batiments \cap DOMAIN batiments' :
             (~batiments[k].connected /\ batiments'[k].connected) => AllocatorStep
       /\ \A k \in DOMAIN batiments' \ DOMAIN batiments : ~batiments'[k].connected
       /\ AllocatorStep =>
             \A k \in DOMAIN batiments' :
                 batiments'[k].connected
                     <=> \E n \in DOMAIN connection_plan' :
                            connection_plan'[n].building_id = k]_vars

----------------------------------------------------------------------------
(* Properties of the outputs of optimize_connections *)

RECURSIVE SumHouses(_)
SumHouses(s) == IF s = <<>> THEN 0 ELSE s[1].nb_houses + SumHouses(Tail(s))

\* C19: after one optimize_connections call on a fresh GridOptimizer,
\* buildings_connected is the number of records, houses_connected the sum of
\* their house counts, total_cost the sum of their costs and total_time the
\* sum of their times; the rank of a record is its 1-based position in the
\* order of acceptance; the cumulative cost and time never decrease from
\* one acceptance to the next.
C19_OutputsAgree ==
    (program = "GridOptimizer" /\ calls = 1) =>
        /\ buildings_connected = Len(connection_plan)
        /\ houses_connected = SumHouses(connection_plan)
        /\ total_cost = SumCost(connection_plan)
        /\ total_time = SumTime(connection_plan)
        /\ Len(AcceptedTurns) = Len(connection_plan)
        /\ \A n \in DOMAIN connection_plan :
              /\ ExportFeatures(connection_plan)[n].rank = n
              /\ ExportFeatures(connection_plan)[n].id = AcceptedTurns[n].bat_id
              /\ connection_plan[n].building_id = AcceptedTurns[n].bat_id
        /\ \A n \in 1 .. (Len(AcceptedTurns) - 1) :
              /\ AcceptedTurns[n].cost_before <= AcceptedTurns[n + 1].cost_before
              /\ AcceptedTurns[n].time_before <= AcceptedTurns[n + 1].time_before
        /\ \A n \in DOMAIN AcceptedTurns :
              /\ AcceptedTurns[n].cost_before <= total_cost
              /\ AcceptedTurns[n].time_before <= total_time

\* C19 witness: one call in which a candidate was rejected between two
\* accepted ones, so the second record's rank is not its place in the ranking.
C19_Witness ==
    /\ program = "GridOptimizer"
    /\ calls = 1
    /\ Len(connection_plan) = 2
    /\ Len(scan_log) = 3
    /\ scan_log[1].accepted /\ ~scan_log[2].accepted /\ scan_log[3].accepted
    /\ ExportFeatures(connection_plan)[2].id = building_scores[3].bat_id

----------------------------------------------------------------------------
(* The costs of the two programs *)

\* the connection_cost calculate_connection_costs gives a building of the
\* shapefiles PhasedGridOptimizer has read, their geometries being unknown
ResolverCost(row) ==
    ResolveBatiment(Batiment(row.type_batiment, row.nb_maisons, None),
                    [k \in DOMAIN gdf_infras |-> Infrastructure(gdf_infras[k], None)])
        .connection_cost

\* C20: the cost optimize_phases uses for a building (in total_cost, the
\* limits and the running cost of a phase) is the connection_cost the
\* Proximity Resolver gives that building: max(distance * cost_per_meter of
\* the cheapest line, min_connection_cost).
C20_PhasedCostIsResolverCost ==
    (program = "PhasedGridOptimizer" /\ pc # "new" /\ pc # "loaded") =>
        \A j \in DOMAIN results :
            results[j].total_cost = ResolverCost(gdf_batiments[results[j].id])

----------------------------------------------------------------------------
(* optimize_connections called again on the same GridOptimizer *)

\* C21: after any sequence of optimize_connections calls on the same
\* GridOptimizer, connection_plan holds at most one record per building id,
\* buildings_connected is the number of records, houses_connected the sum
\* of the records' house counts and total_cost the sum of the records'
\* costs, so that a budget given to the last call bounds the cost of the
\* whole plan.
C21_PlanInvariants ==
    (program = "GridOptimizer" /\ calls >= 1) =>
        /\ \A m, n \in DOMAIN connection_plan :
              connection_plan[m].building_id = connection_plan[n].building_id
                  => m = n
        /\ buildings_connected = Len(connection_plan)
        /\ houses_connected = SumHouses(connection_plan)
        /\ total_cost = SumCost(connection_plan)
        /\ budget # None => SumCost(connection_plan) <= budget

----------------------------------------------------------------------------
(* Lines of an unknown type *)

\* the type label of the line is none of the keys of INFRASTRUCTURE_SPECS
UnknownType(l) == l.type_infra \notin {"aerien", "semi-aerien", "fourreau"}

\* the lines of an unknown type, by their place in the infrastructure map
UnknownLines == {k \in DOMAIN infrastructures : UnknownType(infrastructures[k])}

\* C22: a line whose type label is none of the three keys of
\* INFRASTRUCTURE_SPECS (the accented default label of load_data included)
\* has cost_per_meter 0 and time_per_meter 0; once the costs are calculated,
\* such a line is a candidate of cost 0 for every building at every
\* distance, every building is connected via a line of an unknown type (the
\* first one) and never via a line with a positive cost_per_meter, and gets
\* connection_cost 50 and connection_time 0.
C22_UnknownTypeIsFree ==
    program = "GridOptimizer" =>
        /\ \A k \in UnknownLines :
              /\ infrastructures[k].cost_per_meter = 0
              /\ infrastructures[k].time_per_meter = 0
        /\ (pc \notin {"new", "loaded"} /\ UnknownLines # {}) =>
              \A i \in DOMAIN batiments :
                  /\ \A k \in UnknownLines :
                        Candidate(batiments[i], infrastructures[k]).cost = 0
                  /\ batiments[i].connected_via \in UnknownLines
                  /\ \A k \in UnknownLines : batiments[i].connected_via <= k
                  /\ infrastructures[batiments[i].connected_via].cost_per_meter = 0
                  /\ batiments[i].connection_cost = 50
                  /\ batiments[i].connection_time = 0

\* C22 witness: a building is connected via the second line of the map,
\* which has the substituted label, although the first line, an overhead
\* one, lies nearer.
C22_Witness ==
    /\ program = "GridOptimizer"
    /\ pc = "costed"
    /\ Len(infrastructures) = 2
    /\ infrastructures[1].type_infra = "aerien"
    /\ infrastructures[1].cost_per_meter = 500
    /\ infrastructures[2].type_infra = "ae'rien"
    /\ infrastructures[2].cost_per_meter = 0
    /\ \E i \in DOMAIN batiments :
          /\ batiments[i].geometry # None
          /\ infrastructures[1].geometry # None
          /\ infrastructures[2].geometry # None
          /\ Measured(batiments[i], infrastructures[1])
                < Measured(batiments[i], infrastructures[2])
          /\ batiments[i].connected_via = 2
          /\ batiments[i].connection_cost = 50
          /\ batiments[i].connection_time = 0

----------------------------------------------------------------------------
(* Properties of create_connection_plan *)

\* the total cost of the first m records of connection_analysis
PrefixCost(m) == SumCost(SubSeq(connection_analysis, 1, m))

\* C23: connection_analysis is sorted by non-increasing priority score;
\* with a positive budget the plan create_connection_plan returns is the
\* longest prefix of that list whose total cost is at most the budget: the
\* next record, if any, would exceed the budget, and no record behind it is
\* taken; the total_cost returned is the sum of the costs of the plan and
\* is at most the budget; with the budget 0 or None the plan is the whole
\* list.
C23_StopAtFirstOverBudget ==
    (program = "Analyzer" /\ pc = "planned") =>
        \E n \in {Len(plan_result.plan)} :
            /\ \A k \in 1 .. (Len(connection_analysis) - 1) :
                  ~PriorityGreater(connection_analysis[k + 1].priority_score,
                                   connection_analysis[k].priority_score)
            /\ n <= Len(connection_analysis)
            /\ plan_result.plan = SubSeq(connection_analysis, 1, n)
            /\ plan_result.total_cost = SumCost(plan_result.plan)
            /\ plan_budget \in {None, 0} => n = Len(connection_analysis)
            /\ plan_budget > 0 =>
                  /\ plan_result.total_cost <= plan_budget
                  /\ n < Len(connection_analysis) => PrefixCost(n + 1) > plan_budget
                  /\ \A m \in (n + 1) .. Len(connection_analysis) :
                        PrefixCost(m) > plan_budget

\* C23 witness: with the budget 90 the plan stops behind its first record,
\* the second one being too dear, although the third one would still fit.
C23_Witness ==
    /\ program = "Analyzer"
    /\ pc = "planned"
    /\ plan_budget = 90
    /\ Len(connection_analysis) = 3
    /\ Len(plan_result.plan) = 1
    /\ plan_result.total_cost + connection_analysis[2].cost > 90
    /\ plan_result.total_cost + connection_analysis[3].cost <= 90
    /\ connection_analysis[3].cost > 0

====
